---- MODULE Spec2Model ----
(***************************************************************************)
(* Model of src/SentimentAnalyzer.tsx: the lexicon-based classifier        *)
(* (analyzeSentiment), the word tagger (getWordSentiments) and the React   *)
(* component state around them (text, result, history, isAnalyzing, the    *)
(* debounce timer of the useEffect).                                       *)
(*                                                                         *)
(* A text is a sequence of one-character strings; a token (a "word" of     *)
(* the source) is a TLA+ string, built by concatenating its characters.    *)
(* Numbers that are fractions in the source (confidence, the three         *)
(* scores) are exact rationals [num, den] in lowest terms.                 *)
(***************************************************************************)
EXTENDS Integers, Sequences, FiniteSets, TLC

VARIABLES
    \* ---- the component state (useState hooks, lines 21-24) ----
    text,           \* the textarea's value
    result,         \* SentimentResult or null
    history,        \* array of {text, result}, newest first
    isAnalyzing,    \* boolean
    \* ---- the runtime around the component ----
    timer,          \* the pending setTimeout of the effect (its closure's text) or NoTimer
    effectPending,  \* a render was committed whose passive effect has not run yet
    clock,          \* Date.now(): the number of readings so far
    edits,          \* number of user edits (onChange / Clear All) so far
    lastOp,         \* the handler or callback that ran last
    \* ---- direct calls of the two pure functions ----
    inputText,      \* the argument
    out,            \* analyzeSentiment(inputText) or null
    tags,           \* getWordSentiments(inputText) or null
    prev            \* [text, result] before the last retyping of inputText, or null

vars == <<text, result, history, isAnalyzing, timer, effectPending, clock, edits, lastOp,
          inputText, out, tags, prev>>

uiVars == <<text, result, history, isAnalyzing, timer, effectPending, clock, edits, lastOp>>
uiVars_noClock == <<text, result, history, isAnalyzing, timer, effectPending, edits, lastOp>>
fnVars == <<inputText, out, tags, prev>>

\* an absent value (null, no timer) is the empty sequence, a present one <<v>>
null == <<>>
NoTimer == <<>>
Some(v) == <<v>>
valueOf(o) == o[1]

-----------------------------------------------------------------------------
(* Bounds of the model *)

\* a text given to the functions directly is made of at most MaxPieces pieces
MaxPieces == 5
\* Date.now() is read at most MaxClock times
MaxClock == 2
\* the user edits the textarea (or clears all) at most MaxEdits times
MaxEdits == 3
\* a text that is typed again with one difference is made of at most MaxRetypePieces pieces
MaxRetypePieces == 3

-----------------------------------------------------------------------------
(* Exact fractions *)

Min(a, b) == IF a <= b THEN a ELSE b
Max(a, b) == IF a >= b THEN a ELSE b

RECURSIVE GCD(_, _)
GCD(a, b) == IF b = 0 THEN a ELSE GCD(b, a % b)

Abs(a) == IF a < 0 THEN -a ELSE a

\* n/d in lowest terms, d > 0
Rat(n, d) ==
    LET g == GCD(Abs(n), d)
    IN  [num |-> n \div g, den |-> d \div g]

RatLeq(a, b) == a.num * b.den <= b.num * a.den
RatMin(a, b) == IF RatLeq(a, b) THEN a ELSE b
RatAdd(a, b) == Rat(a.num * b.den + b.num * a.den, a.den * b.den)
RatSub(a, b) == Rat(a.num * b.den - b.num * a.den, a.den * b.den)
RatMul(a, b) == Rat(a.num * b.num, a.den * b.den)
RatInt(n) == Rat(n, 1)

-----------------------------------------------------------------------------
(* Characters: String.prototype.toLowerCase, the classes \w and \s *)

UpperLetters == <<"A","B","C","D","E","F","G","H","I","J","K","L","M",
                  "N","O","P","Q","R","S","T","U","V","W","X","Y","Z">>
LowerLetters == <<"a","b","c","d","e","f","g","h","i","j","k","l","m",
                  "n","o","p","q","r","s","t","u","v","w","x","y","z">>
Digits == {"0","1","2","3","4","5","6","7","8","9"}

Range(s) == {s[i] : i \in 1..Len(s)}

UpperSet == Range(UpperLetters)
LowerSet == Range(LowerLetters)
IsUpper(c) == c \in UpperSet
IsLower(c) == c \in LowerSet
IsLetter(c) == IsUpper(c) \/ IsLower(c)

\* \s of the regular expressions and of trim()
WhiteSpace == {" ", "\t", "\n", "\r", "\f"}
IsSpace(c) == c \in WhiteSpace

\* \w is [A-Za-z0-9_]
IsWordChar(c) == IsLetter(c) \/ c \in Digits \/ c = "_"

toLowerCaseChar(c) ==
    IF IsUpper(c)
    THEN LowerLetters[CHOOSE i \in 1..Len(UpperLetters) : UpperLetters[i] = c]
    ELSE c

toUpperCaseChar(c) ==
    IF IsLower(c)
    THEN UpperLetters[CHOOSE i \in 1..Len(LowerLetters) : LowerLetters[i] = c]
    ELSE c

toLowerCase(s) == [i \in 1..Len(s) |-> toLowerCaseChar(s[i])]

\* replace(/[^\w\s]/g, '')
stripNonWord(s) == SelectSeq(s, LAMBDA c : IsWordChar(c) \/ IsSpace(c))

\* String.prototype.trim
RECURSIVE trimStart(_)
trimStart(s) ==
    IF s # <<>> /\ IsSpace(Head(s)) THEN trimStart(Tail(s)) ELSE s

RECURSIVE trimEnd(_)
trimEnd(s) ==
    IF s # <<>> /\ IsSpace(s[Len(s)]) THEN trimEnd(SubSeq(s, 1, Len(s) - 1)) ELSE s

trim(s) == trimEnd(trimStart(s))

\* split(/\s+/): the pieces between the maximal whitespace runs; a run at the
\* start or at the end of the string leaves an empty piece before or after it,
\* and a string with no whitespace (the empty string too) is one piece.
RECURSIVE splitFrom(_, _, _, _)
splitFrom(s, i, cur, acc) ==
    IF i > Len(s) THEN Append(acc, cur)
    ELSE IF IsSpace(s[i])
         THEN IF i > 1 /\ IsSpace(s[i - 1])
              THEN splitFrom(s, i + 1, cur, acc)
              ELSE splitFrom(s, i + 1, "", Append(acc, cur))
         ELSE splitFrom(s, i + 1, cur \o s[i], acc)

splitWhitespace(s) == splitFrom(s, 1, "", <<>>)

\* const words = inputText.toLowerCase().replace(/[^\w\s]/g, '').split(/\s+/)
tokenize(txt) == splitWhitespace(stripNonWord(toLowerCase(txt)))

-----------------------------------------------------------------------------
(* The lexicons (lines 27-48) *)

positiveWords ==
    {"amazing", "awesome", "brilliant", "excellent", "fantastic", "great", "happy",
     "incredible", "love", "perfect", "wonderful", "good", "best", "beautiful",
     "outstanding", "superb", "magnificent", "delightful", "pleasant", "satisfied",
     "impressive", "remarkable", "exceptional", "marvelous", "terrific", "fabulous",
     "gorgeous", "splendid", "stellar", "phenomenal", "enjoy", "like", "appreciate",
     "adore", "treasure", "cherish", "celebrate", "success", "victory", "triumph"}

negativeWords ==
    {"awful", "terrible", "horrible", "bad", "worst", "hate", "disgusting",
     "disappointing", "frustrating", "annoying", "angry", "sad", "depressing",
     "pathetic", "useless", "worthless", "dreadful", "appalling", "shocking",
     "disturbing", "offensive", "unacceptable", "ridiculous", "stupid", "idiotic",
     "dislike", "despise", "detest", "loathe", "failure", "disaster", "catastrophe",
     "nightmare", "regret", "mistake", "problem", "issue", "trouble", "difficulty"}

neutralWords ==
    {"okay", "fine", "average", "normal", "standard", "typical", "usual",
     "regular", "common", "ordinary", "moderate", "fair", "decent", "adequate"}

-----------------------------------------------------------------------------
(* analyzeSentiment (lines 50-110) *)

\* words.forEach(...) of lines 65-77: the three counters after the loop
RECURSIVE countWords(_, _)
countWords(words, c) ==
    IF words = <<>> THEN c
    ELSE LET word == Head(words)
             c1 == IF word \in positiveWords
                   THEN [c EXCEPT !.positiveCount = @ + 1]
                   ELSE IF word \in negativeWords
                   THEN [c EXCEPT !.negativeCount = @ + 1]
                   ELSE IF word \in neutralWords
                   THEN [c EXCEPT !.neutralCount = @ + 1]
                   ELSE c
         IN  countWords(Tail(words), c1)

sentimentCounts(words) ==
    countWords(words, [positiveCount |-> 0, negativeCount |-> 0, neutralCount |-> 0])

\* the label with >= for > : a tie is won by the first of the tied labels
selectSentimentOnTie(positiveCount, negativeCount, neutralCount) ==
    IF positiveCount >= negativeCount /\ positiveCount >= neutralCount THEN "positive"
    ELSE IF negativeCount >= positiveCount /\ negativeCount >= neutralCount THEN "negative"
    ELSE "neutral"

\* lines 82-94: the label
selectSentiment(positiveCount, negativeCount, neutralCount) ==
    IF positiveCount > negativeCount /\ positiveCount > neutralCount THEN "positive"
    ELSE IF negativeCount > positiveCount /\ negativeCount > neutralCount THEN "negative"
    ELSE "neutral"

\* the confidence without the Math.min caps
confidenceUncapped(sentiment, positiveCount, negativeCount, neutralCount, totalWords) ==
    IF sentiment = "positive"
    THEN RatMul(Rat(positiveCount, totalWords), RatInt(2))
    ELSE IF sentiment = "negative"
    THEN RatMul(Rat(negativeCount, totalWords), RatInt(2))
    ELSE IF positiveCount + negativeCount + neutralCount = 0
         THEN Rat(5, 10)
         ELSE RatAdd(Rat(3, 10), Rat(neutralCount, totalWords))

\* lines 85-94: the confidence of the label
confidenceOf(sentiment, positiveCount, negativeCount, neutralCount, totalWords) ==
    IF sentiment = "positive"
    THEN RatMin(Rat(9, 10), RatMul(Rat(positiveCount, totalWords), RatInt(2)))
    ELSE IF sentiment = "negative"
    THEN RatMin(Rat(9, 10), RatMul(Rat(negativeCount, totalWords), RatInt(2)))
    ELSE IF positiveCount + negativeCount + neutralCount = 0
         THEN Rat(5, 10)
         ELSE RatMin(Rat(8, 10), RatAdd(Rat(3, 10), Rat(neutralCount, totalWords)))

\* lines 52-62: the result for a text that trims to nothing
emptyResult(t) ==
    [sentiment |-> "neutral", confidence |-> RatInt(0),
     positiveScore |-> RatInt(0), negativeScore |-> RatInt(0), neutralScore |-> RatInt(1),
     wordCount |-> 0, timestamp |-> t]

\* the score breakdown with the negative score left out of the remainder
scoresPerLexicon(positiveCount, negativeCount, totalWords) ==
    LET positiveScore == Rat(positiveCount, Max(totalWords, 1))
        negativeScore == Rat(negativeCount, Max(totalWords, 1))
    IN  [positiveScore |-> positiveScore,
         negativeScore |-> negativeScore,
         neutralScore |-> RatSub(RatInt(1), positiveScore)]

\* lines 96-98: the score breakdown
scoresOf(positiveCount, negativeCount, totalWords) ==
    LET positiveScore == Rat(positiveCount, Max(totalWords, 1))
        negativeScore == Rat(negativeCount, Max(totalWords, 1))
    IN  [positiveScore |-> positiveScore,
         negativeScore |-> negativeScore,
         neutralScore |-> RatSub(RatSub(RatInt(1), positiveScore), negativeScore)]

\* !inputText, without the trim
isEmptyString(txt) == txt = <<>>

\* !inputText.trim() (line 52)
isBlank(txt) == trim(txt) = <<>>

analyzeSentiment(txt, t) ==
    IF isBlank(txt) THEN emptyResult(t)
    ELSE
      LET words == tokenize(txt)
          c == sentimentCounts(words)
          totalWords == Len(words)
          sentiment == selectSentiment(c.positiveCount, c.negativeCount, c.neutralCount)
          scores == scoresOf(c.positiveCount, c.negativeCount, totalWords)
      IN  [sentiment |-> sentiment,
           confidence |-> confidenceOf(sentiment, c.positiveCount, c.negativeCount,
                                       c.neutralCount, totalWords),
           positiveScore |-> scores.positiveScore,
           negativeScore |-> scores.negativeScore,
           neutralScore |-> scores.neutralScore,
           wordCount |-> totalWords,
           timestamp |-> t]

-----------------------------------------------------------------------------
(* getWordSentiments (lines 112-126) *)

tagOf(word) ==
    IF word \in positiveWords THEN [word |-> word, sentiment |-> "positive", score |-> 1]
    ELSE IF word \in negativeWords THEN [word |-> word, sentiment |-> "negative", score |-> -1]
    ELSE IF word \in neutralWords THEN [word |-> word, sentiment |-> "neutral", score |-> 0]
    ELSE [word |-> word, sentiment |-> "neutral", score |-> 0]

getWordSentiments(txt) ==
    LET words == tokenize(txt)
    IN  [i \in 1..Len(words) |-> tagOf(words[i])]

-----------------------------------------------------------------------------
(* The component: the effect of lines 128-142 and the handlers *)

\* One run of the effect on a committed render [text, result, isAnalyzing, timer]:
\* the cleanup of the previous run (clearTimeout), then the body. Every render
\* builds new lexicon arrays, so the useMemo of line 50 yields a new
\* analyzeSentiment and the dependency list [text, analyzeSentiment] differs
\* after every render: the effect runs after each one. A second run on an
\* unchanged render (the one that setIsAnalyzing(true) or setResult(null)
\* causes) leaves the same state, with the timer restarted.
runEffect(s) ==
    IF ~isBlank(s.text)
    THEN [s EXCEPT !.isAnalyzing = TRUE, !.timer = Some([text |-> s.text])]
    ELSE [s EXCEPT !.result = null, !.isAnalyzing = FALSE, !.timer = NoTimer]

committed == [text |-> text, result |-> result, isAnalyzing |-> isAnalyzing, timer |-> timer]

\* the state after a handler's updates s are rendered and the effect has run
Commit(s) ==
    LET e == runEffect(s)
    IN  /\ text' = e.text
        /\ result' = e.result
        /\ isAnalyzing' = e.isAnalyzing
        /\ timer' = e.timer
        /\ effectPending' = FALSE

\* the texts the user types into the textarea
UITexts ==
    { <<>>, <<" ">>, <<"g","o","o","d">>, <<"b","a","d">> }

\* onChange={(e) => setText(e.target.value)} (line 228)
SetText(t) ==
    /\ edits < MaxEdits
    /\ t # text
    /\ edits' = edits + 1
    /\ lastOp' = "setText"
    /\ Commit([committed EXCEPT !.text = t])
    /\ UNCHANGED <<history, clock, fnVars>>

\* the callback of setTimeout (lines 131-135), 500 ms after the effect ran
TimerFires ==
    /\ timer # NoTimer
    /\ clock < MaxClock
    /\ clock' = clock + 1
    /\ result' = Some(analyzeSentiment(valueOf(timer).text, clock))
    /\ isAnalyzing' = FALSE
    /\ timer' = NoTimer
    /\ effectPending' = TRUE
    /\ lastOp' = "timer"
    /\ UNCHANGED <<text, history, edits, fnVars>>

\* the passive effect of the render that the timer's updates caused
EffectRuns ==
    /\ effectPending
    /\ lastOp' = "effect"
    /\ Commit(committed)
    /\ UNCHANGED <<history, clock, edits, fnVars>>

\* the update with slice(0, 10)
addEntryKeepTen(h, newEntry) == <<newEntry>> \o SubSeq(h, 1, Min(Len(h), 10))

\* prev => [newEntry, ...prev.slice(0, 9)] (line 147)
addEntry(h, newEntry) == <<newEntry>> \o SubSeq(h, 1, Min(Len(h), 9))

\* handleAnalyze (lines 144-149), the Add to History button
HandleAnalyze ==
    /\ ~isBlank(text)
    /\ result # null
    /\ history' = addEntry(history, [text |-> text, result |-> valueOf(result)])
    /\ lastOp' = "handleAnalyze"
    /\ Commit(committed)
    /\ UNCHANGED <<clock, edits, fnVars>>

\* handleClear (lines 151-155), the Clear All button
HandleClear ==
    /\ edits < MaxEdits
    /\ edits' = edits + 1
    /\ history' = <<>>
    /\ lastOp' = "handleClear"
    /\ Commit([committed EXCEPT !.text = <<>>, !.result = null])
    /\ UNCHANGED <<clock, fnVars>>

-----------------------------------------------------------------------------
(* Direct calls of analyzeSentiment and getWordSentiments *)

\* a word of each lexicon (one with a capital), a word of none, a space, a mark
Pieces ==
    { <<"g","o","o","d">>, <<"B","a","d">>, <<"f","i","n","e">>, <<"c","a","t">>,
      <<" ">>, <<"!">> }

RECURSIVE TextsOf(_)
TextsOf(n) ==
    IF n = 0 THEN { <<>> }
    ELSE LET shorter == TextsOf(n - 1)
         IN  shorter \cup { t \o p : t \in shorter, p \in Pieces }

Texts == TextsOf(MaxPieces)
RetypeTexts == TextsOf(MaxRetypePieces)

\* characters that are neither letters, digits nor whitespace
IsPunctuation(c) == ~IsLetter(c) /\ c \notin Digits /\ ~IsSpace(c)
PunctuationTyped == {"!", "_"}

insertAt(s, i, cs) == SubSeq(s, 1, i) \o cs \o SubSeq(s, i + 1, Len(s))
removeAt(s, i) == SubSeq(s, 1, i - 1) \o SubSeq(s, i + 1, Len(s))
toggleCase(c) == IF IsUpper(c) THEN toLowerCaseChar(c) ELSE toUpperCaseChar(c)

CallAnalyze ==
    /\ out = null
    /\ clock < MaxClock
    /\ clock' = clock + 1
    /\ out' = Some(analyzeSentiment(inputText, clock))
    /\ UNCHANGED <<inputText, tags, prev, uiVars_noClock>>

CallTagWords ==
    /\ tags = null
    /\ tags' = Some(getWordSentiments(inputText))
    /\ UNCHANGED <<inputText, out, prev, uiVars>>

\* the text is typed again with one difference and analysed again; the earlier
\* text and result are kept in prev
Retype(t, kind) ==
    /\ out # null
    /\ prev = null
    /\ clock < MaxClock
    /\ clock' = clock + 1
    /\ prev' = Some([text |-> inputText, result |-> valueOf(out), kind |-> kind])
    /\ inputText' = t
    /\ out' = Some(analyzeSentiment(t, clock))
    /\ tags' = null
    /\ UNCHANGED uiVars_noClock

ChangeCase ==
    \E i \in 1..Len(inputText) :
        /\ IsLetter(inputText[i])
        /\ Retype([inputText EXCEPT ![i] = toggleCase(@)], "case")

InsertPunctuation ==
    \E i \in 0..Len(inputText), c \in PunctuationTyped :
        Retype(insertAt(inputText, i, <<c>>), "punctuation")

RemovePunctuation ==
    \E i \in 1..Len(inputText) :
        /\ IsPunctuation(inputText[i])
        /\ Retype(removeAt(inputText, i), "punctuation")

\* a punctuation mark of its own, set off by a space, before or after the text
InsertMark ==
    \E c \in PunctuationTyped :
        \/ Retype(<<c, " ">> \o inputText, "mark")
        \/ Retype(inputText \o <<" ", c>>, "mark")

-----------------------------------------------------------------------------
(* Specifications *)

InitUI ==
    /\ text = <<>>
    /\ result = null
    /\ history = <<>>
    /\ isAnalyzing = FALSE
    /\ timer = NoTimer
    /\ effectPending = FALSE
    /\ clock = 0
    /\ edits = 0
    /\ lastOp = "mount"

InitFn ==
    /\ out = null
    /\ tags = null
    /\ prev = null

\* the two functions called on any text
Init ==
    /\ InitUI
    /\ InitFn
    /\ inputText \in Texts

Next ==
    \/ CallAnalyze
    \/ CallTagWords

Spec == Init /\ [][Next]_vars

\* analyzeSentiment called on a text and on the same text with one difference
InitRetype ==
    /\ InitUI
    /\ InitFn
    /\ inputText \in RetypeTexts

NextRetype ==
    \/ CallAnalyze
    \/ ChangeCase
    \/ InsertPunctuation
    \/ RemovePunctuation
    \/ InsertMark

SpecRetype == InitRetype /\ [][NextRetype]_vars

\* the mounted component
InitComponent ==
    /\ InitUI
    /\ InitFn
    /\ inputText = <<>>

NextComponent ==
    \/ \E t \in UITexts : SetText(t)
    \/ TimerFires
    \/ EffectRuns
    \/ HandleAnalyze
    \/ HandleClear

SpecUI == InitComponent /\ [][NextComponent]_vars

-----------------------------------------------------------------------------
(* Properties *)

\* the text as the functions see it: lower case, punctuation removed
cleaned == stripNonWord(toLowerCase(inputText))
tokens == tokenize(inputText)

\* the number of tokens of inputText found in a lexicon
foundIn(lexicon) == Cardinality({i \in 1..Len(tokens) : tokens[i] \in lexicon})

onlyWhitespace(txt) == \A i \in 1..Len(txt) : txt[i] \in {" ", "\t", "\n", "\r", "\f"}

inUnitInterval(q) == 0 <= q.num /\ q.num <= q.den

\* the number of tags with a given sentiment
countTags(ts, sentiment) == Cardinality({i \in 1..Len(ts) : ts[i].sentiment = sentiment})

\* the number of words of a text: its maximal runs of non-whitespace characters
isWordStart(txt, i) == ~IsSpace(txt[i]) /\ (i = 1 \/ IsSpace(txt[i - 1]))
numberOfWords(txt) == Cardinality({i \in 1..Len(txt) : isWordStart(txt, i)})

\* Add to History puts the entry made of the current text and result in front
\* and drops at most the 10th entry, Clear All empties the history, and every
\* other step leaves it alone
historyStep ==
    IF lastOp' = "handleAnalyze"
    THEN /\ result # null
         /\ history'[1] = [text |-> text, result |-> valueOf(result)]
         /\ Len(history') = IF Len(history) < 10 THEN Len(history) + 1 ELSE 10
         /\ \A i \in 2..Len(history') : history'[i] = history[i - 1]
    ELSE IF lastOp' = "handleClear"
    THEN history' = <<>>
    ELSE history' = history

\* two results that differ at most in their timestamps
sameAnalysis(r, q) ==
    /\ r.sentiment = q.sentiment
    /\ r.confidence = q.confidence
    /\ r.positiveScore = q.positiveScore
    /\ r.negativeScore = q.negativeScore
    /\ r.neutralScore = q.neutralScore
    /\ r.wordCount = q.wordCount

\* the result shown is the analysis of the text, and no analysis is under way
settled ==
    /\ ~isBlank(text)
    /\ result # null
    /\ sameAnalysis(valueOf(result), analyzeSentiment(text, valueOf(result).timestamp))
    /\ ~isAnalyzing

BlankGetsTheDefault ==
    out # null =>
        LET r == valueOf(out)
        IN  IF onlyWhitespace(inputText)
            THEN /\ r.sentiment = "neutral"
                 /\ r.confidence = Rat(0, 1)
                 /\ r.positiveScore = Rat(0, 1)
                 /\ r.negativeScore = Rat(0, 1)
                 /\ r.neutralScore = Rat(1, 1)
                 /\ r.wordCount = 0
                 /\ r.timestamp = clock - 1
            ELSE ~(r.confidence = Rat(0, 1) /\ r.wordCount = 0)

\* a whitespace-only text of several characters has been analysed
BlankWitness ==
    /\ out # null
    /\ Len(inputText) >= 2
    /\ onlyWhitespace(inputText)
    /\ valueOf(out).wordCount = 0

\* C3: the confidence lies in [0, 0.9], and in [0, 0.8] for a neutral label
ConfidenceIsCapped ==
    out # null =>
        LET r == valueOf(out)
        IN  /\ RatLeq(Rat(0, 1), r.confidence)
            /\ RatLeq(r.confidence, Rat(9, 10))
            /\ r.sentiment = "neutral" => RatLeq(r.confidence, Rat(8, 10))

\* a neutral result whose uncapped confidence 0.3 + 2/3 exceeds 0.8
ConfidenceWitness ==
    /\ out # null
    /\ valueOf(out).sentiment = "neutral"
    /\ foundIn(neutralWords) = 2
    /\ valueOf(out).wordCount = 3
    /\ valueOf(out).confidence = Rat(8, 10)

\* C4: a non-blank text is positive iff the positive count exceeds both other
\* counts, negative iff the negative count exceeds both others, else neutral
LabelIsStrictMajority ==
    (out # null /\ ~onlyWhitespace(inputText)) =>
        LET r == valueOf(out)
            p == foundIn(positiveWords)
            n == foundIn(negativeWords)
            u == foundIn(neutralWords)
        IN  /\ r.sentiment = "positive" <=> (p > n /\ p > u)
            /\ r.sentiment = "negative" <=> (n > p /\ n > u)
            /\ r.sentiment = "neutral" <=> ~(p > n /\ p > u) /\ ~(n > p /\ n > u)

\* a tie for the largest count between the positive and the negative lexicon
LabelWitness ==
    /\ out # null
    /\ foundIn(positiveWords) = 1
    /\ foundIn(negativeWords) = 1
    /\ foundIn(neutralWords) = 0
    /\ valueOf(out).sentiment = "neutral"

\* C5: a change of case or of punctuation leaves sentiment and confidence as
\* they were
CaseAndPunctuationInsensitive ==
    (prev # null /\ out # null) =>
        /\ valueOf(out).sentiment = valueOf(prev).result.sentiment
        /\ valueOf(out).confidence = valueOf(prev).result.confidence

\* C6: the word tagger yields as many tags as analyzeSentiment reports words,
\* and as many positive and negative tags as it counted
TagsAgreeWithCounts ==
    (out # null /\ tags # null) =>
        LET c == IF isBlank(inputText)
                 THEN [positiveCount |-> 0, negativeCount |-> 0, neutralCount |-> 0]
                 ELSE sentimentCounts(tokens)
        IN  /\ Len(valueOf(tags)) = valueOf(out).wordCount
            /\ countTags(valueOf(tags), "positive") = c.positiveCount
            /\ countTags(valueOf(tags), "negative") = c.negativeCount

\* C8: no token is the empty string, and the word count of a non-blank text is
\* its number of words
NoEmptyToken ==
    /\ tags # null =>
           /\ \A i \in 1..Len(valueOf(tags)) : valueOf(tags)[i].word # ""
           /\ onlyWhitespace(inputText) => Len(valueOf(tags)) = 0
    /\ (out # null /\ ~onlyWhitespace(inputText)) =>
           valueOf(out).wordCount = numberOfWords(cleaned)

\* C7: the history never holds more than 10 entries, and Add to History puts
\* the entry made of the current text and result in front of the earlier
\* entries, which keep their order and of which only the 10th is dropped
HistoryBoundedNewestFirst ==
    /\ Len(history) <= 10
    /\ [][historyStep /\ Len(history') <= 10]_vars

\* a full history whose entries are not all alike
HistoryWitness ==
    /\ lastOp = "handleAnalyze"
    /\ Len(history) = 10
    /\ history[1] # history[10]
    /\ history[1].text # history[10].text

\* C9: every history entry pairs a text with the analysis of that text
HistoryEntriesAreConsistent ==
    \A i \in 1..Len(history) :
        sameAnalysis(history[i].result,
                     analyzeSentiment(history[i].text, history[i].result.timestamp))

\* C10: once the result is the analysis of the text and isAnalyzing is false,
\* they stay so and no timer is scheduled until the text changes
AnalysisStaysSettled ==
    [][(settled /\ text' = text) => (~isAnalyzing' /\ timer' = NoTimer)]_vars

====
